---------------------------- MODULE Spec2Model ----------------------------
(***************************************************************************)
(* A model of the SE_BME680 indoor-air-quality engine                      *)
(* (src/src/SE_BME680.cpp, src/src/SE_BME680.h) and of its range tracker   *)
(* (src/src/DonchianAverage.h).                                            *)
(*                                                                         *)
(* Units.  Gas resistance is counted in kOhm (50 stands for 50000 Ohm).    *)
(* Time is counted in ticks of 1000 ms, the size of the timer penalty.     *)
(* The 32-bit millisecond timer is narrowed to TimerBits bits, and the     *)
(* stage durations are narrowed with it: they keep their order and stay    *)
(* below half the timer's modulus, as an int stays below 2^31.             *)
(*                                                                         *)
(* Floating point.  A float or double is a pair <<n, d>> of naturals in    *)
(* lowest terms: n/d for d > 0, <<1, 0>> is +infinity and <<0, 0>> is NaN. *)
(* All values the engine computes are non-negative.  The operators below   *)
(* follow IEEE 754 on the special values (inf * 0 = NaN, inf / inf = NaN,   *)
(* inf - inf = NaN, every ordered comparison with NaN is false); rounding   *)
(* of finite values is not modelled.                                       *)
(***************************************************************************)
EXTENDS Integers, Sequences, FiniteSets, TLC

\* ---------------------------------------------------------------- bounds

\* Slots of the calibration array (100 in the source, SE_BME680.h:17).
GAS_CALIBRATION_DATA_POINTS == 3

\* The last value millis() takes in a run.
MaxNow == 3

\* ------------------------------------------------------ program constants

\* Width of gas_calibration_timer and of millis() (unsigned long: 32).
TimerBits == 4

TimerModulus == 2 ^ TimerBits

\* gas_calibration_timer += 1000
PENALTY == 1

\* Defaults of the stage durations (30 s, 5 min, 30 min).
DEFAULT_INIT_TIME == 1
DEFAULT_BURNIN_TIME == 2
DEFAULT_DECAY_TIME == 3

\* Floors of setGasCalibrationTimings (1000, +1000, +60000).
MIN_INIT_TIME == 1
MIN_BURNIN_GAP == 1
MIN_DECAY_GAP == 1

\* Defaults and legal range of the gas resistance limits (kOhm).
DEFAULT_LIMIT_MIN == 50
DEFAULT_LIMIT_MAX == 225
LOWEST_LIMIT_MIN == 30
HIGHEST_LIMIT_MAX == 2000

\* Higher lows that end the initialization stage.
HIGHER_LOWS == 3

\* Uptime (decay intervals) that accuracy 3 and accuracy 4 ask for.
UPTIME_HIGH == 2
UPTIME_VERY_HIGH == 100

\* --------------------------------------------------------- floating point

RECURSIVE GCD(_, _)
GCD(a, b) == IF b = 0 THEN a ELSE GCD(b, a % b)

NaN == <<0, 0>>
Inf == <<1, 0>>

\* The value n/d in lowest terms; n/0 is +infinity and 0/0 is NaN.
Norm(n, d) ==
    IF d = 0 THEN (IF n = 0 THEN NaN ELSE Inf)
    ELSE LET g == GCD(n, d) IN <<n \div g, d \div g>>

\* The integer n as a floating-point value.
F(n) == <<n, 1>>

isnan(x) == x = NaN
IsInf(x) == x = Inf
IsFinite(x) == x[2] > 0

FMul(a, b) == Norm(a[1] * b[1], a[2] * b[2])
FDiv(a, b) == Norm(a[1] * b[2], a[2] * b[1])
FAdd(a, b) ==
    IF isnan(a) \/ isnan(b) THEN NaN
    ELSE IF IsInf(a) \/ IsInf(b) THEN Inf
    ELSE Norm(a[1] * b[2] + b[1] * a[2], a[2] * b[2])
\* a - b for a >= b (every subtraction of the source is max - min).
FSub(a, b) ==
    IF isnan(a) \/ isnan(b) THEN NaN
    ELSE IF IsInf(a) THEN (IF IsInf(b) THEN NaN ELSE Inf)
    ELSE Norm(a[1] * b[2] - b[1] * a[2], a[2] * b[2])

\* a < b, a > b, a >= b: false when either side is NaN.
FLt(a, b) == a[1] * b[2] < b[1] * a[2]
FGt(a, b) == FLt(b, a)
FGe(a, b) == ~isnan(a) /\ ~isnan(b) /\ a[1] * b[2] >= b[1] * a[2]
FLe(a, b) == FGe(b, a)

\* min and max of two values that are not NaN (the Arduino macro and
\* std::min / std::max agree on them).
FMin(a, b) == IF FLt(a, b) THEN a ELSE b
FMax(a, b) == IF FGt(a, b) THEN a ELSE b

\* (uint32_t)round(x) of a finite non-negative x: halves round up.
RoundToInt(x) == (2 * x[1] + x[2]) \div (2 * x[2])

\* ---------------------------------------------------------- DonchianAverage

\* new DonchianAverage(dataArraySize, rangeLimitMax).  The array is not
\* initialized by the constructor; track() reads a slot only after writing
\* it, so the placeholder F(0) is never observed.  The same holds for
\* current, min, max and average.
NewDonchian(dataArraySize, limit) ==
    [ data          |-> [i \in 1..dataArraySize |-> F(0)],
      dataSize      |-> dataArraySize,
      cursor        |-> 0,
      dataFull      |-> FALSE,
      rangeLimitMax |-> limit,
      current       |-> F(0),
      min           |-> F(0),
      max           |-> F(0),
      average       |-> F(0) ]

\* A variant of DonchianWalk that stops at the range limit without
\* adjusting min or max.
RECURSIVE DonchianWalk_StopsWithoutClamp(_, _, _, _, _, _, _, _)
DonchianWalk_StopsWithoutClamp(data, dataSize, limit, dataPoint, k, i, j, mm) ==
    IF i >= j THEN mm
    ELSE LET k1  == IF k - 1 < 0 THEN dataSize - 1 ELSE k - 1
             d   == data[k1 + 1]
             mn  == IF FLt(d, mm[1]) THEN d ELSE mm[1]
             mx  == IF FGt(d, mm[2]) THEN d ELSE mm[2]
         IN  IF limit # F(0) /\ FGt(FSub(mx, mn), limit)
             THEN <<mn, mx>>
             ELSE DonchianWalk_StopsWithoutClamp(data, dataSize, limit, dataPoint,
                                                 k1, i + 1, j, <<mn, mx>>)

\* A variant of DonchianWalk that takes the breakout direction the wrong
\* way round: it lowers max on an upward breakout and raises min otherwise.
RECURSIVE DonchianWalk_ClampsWrongSide(_, _, _, _, _, _, _, _)
DonchianWalk_ClampsWrongSide(data, dataSize, limit, dataPoint, k, i, j, mm) ==
    IF i >= j THEN mm
    ELSE LET k1  == IF k - 1 < 0 THEN dataSize - 1 ELSE k - 1
             d   == data[k1 + 1]
             mn  == IF FLt(d, mm[1]) THEN d ELSE mm[1]
             mx  == IF FGt(d, mm[2]) THEN d ELSE mm[2]
         IN  IF limit # F(0) /\ FGt(FSub(mx, mn), limit)
             THEN IF FLt(FSub(mx, dataPoint), FSub(dataPoint, mn))
                  THEN <<mn, FAdd(mn, limit)>>
                  ELSE <<FSub(mx, limit), mx>>
             ELSE DonchianWalk_ClampsWrongSide(data, dataSize, limit, dataPoint,
                                               k1, i + 1, j, <<mn, mx>>)

\* The backward walk of track(): slot k (0-based) was the last one read,
\* i is the loop counter, j its bound; returns <<min, max>>.
RECURSIVE DonchianWalk(_, _, _, _, _, _, _, _)
DonchianWalk(data, dataSize, limit, dataPoint, k, i, j, mm) ==
    IF i >= j THEN mm
    ELSE LET k1  == IF k - 1 < 0 THEN dataSize - 1 ELSE k - 1
             d   == data[k1 + 1]
             mn  == IF FLt(d, mm[1]) THEN d ELSE mm[1]
             mx  == IF FGt(d, mm[2]) THEN d ELSE mm[2]
         IN  IF limit # F(0) /\ FGt(FSub(mx, mn), limit)
             THEN IF FLt(FSub(mx, dataPoint), FSub(dataPoint, mn))
                  THEN <<FSub(mx, limit), mx>>
                  ELSE <<mn, FAdd(mn, limit)>>
             ELSE DonchianWalk(data, dataSize, limit, dataPoint, k1, i + 1, j, <<mn, mx>>)

\* A variant of DonchianTrack whose walk is one slot short: it never
\* reaches the oldest sample of the window.
DonchianTrack_WalkOneShort(t, dataPoint) ==
    LET data1   == [t.data EXCEPT ![t.cursor + 1] = dataPoint]
        wrapped == t.cursor + 1 >= t.dataSize
        cursor1 == IF wrapped THEN 0 ELSE t.cursor + 1
        full1   == t.dataFull \/ wrapped
        j       == (IF full1 THEN t.dataSize ELSE cursor1) - 1
        k       == IF cursor1 - 1 < 0 THEN t.dataSize - 1 ELSE cursor1 - 1
        mm      == DonchianWalk(data1, t.dataSize, t.rangeLimitMax, dataPoint,
                                k, 1, j, <<data1[k + 1], data1[k + 1]>>)
    IN  [ t EXCEPT !.data = data1, !.cursor = cursor1, !.dataFull = full1,
                   !.current = dataPoint, !.min = mm[1], !.max = mm[2],
                   !.average = FDiv(FAdd(mm[1], mm[2]), F(2)) ]

\* DonchianAverage::track(dataPoint)
DonchianTrack(t, dataPoint) ==
    LET data1   == [t.data EXCEPT ![t.cursor + 1] = dataPoint]
        wrapped == t.cursor + 1 >= t.dataSize
        cursor1 == IF wrapped THEN 0 ELSE t.cursor + 1
        full1   == t.dataFull \/ wrapped
        j       == IF full1 THEN t.dataSize ELSE cursor1
        k       == IF cursor1 - 1 < 0 THEN t.dataSize - 1 ELSE cursor1 - 1
        mm      == DonchianWalk(data1, t.dataSize, t.rangeLimitMax, dataPoint,
                                k, 1, j, <<data1[k + 1], data1[k + 1]>>)
    IN  [ t EXCEPT !.data = data1, !.cursor = cursor1, !.dataFull = full1,
                   !.current = dataPoint, !.min = mm[1], !.max = mm[2],
                   !.average = FDiv(FAdd(mm[1], mm[2]), F(2)) ]

\* ------------------------------------------------- updateGasCalibration

\* The calibration state is the record [data, index, ceiling, range]:
\* gas_calibration_data (1-based here), gas_calibration_data_index,
\* gas_ceiling and gas_calibration_range.

\* The array is taken to be full when its last slot is non-zero.
LastSlotSet(data) == FGt(data[GAS_CALIBRATION_DATA_POINTS], F(0))

\* A variant of SmallestIndex whose comparison is turned round: it finds
\* the largest slot.
RECURSIVE SmallestIndex_FindsLargest(_, _)
SmallestIndex_FindsLargest(data, n) ==
    IF n = 1 THEN 1
    ELSE LET s == SmallestIndex_FindsLargest(data, n - 1)
         IN  IF FGt(data[n], data[s]) THEN n ELSE s

\* Index (1-based) of the smallest slot among 1..n, the first one on ties.
RECURSIVE SmallestIndex(_, _)
SmallestIndex(data, n) ==
    IF n = 1 THEN 1
    ELSE LET s == SmallestIndex(data, n - 1)
         IN  IF FLt(data[n], data[s]) THEN n ELSE s

\* A variant of ReplaceSmallest that overwrites the smallest slot without
\* comparing it with the new value.
ReplaceSmallest_Unconditional(data, compensated_gas) ==
    [data EXCEPT ![SmallestIndex(data, GAS_CALIBRATION_DATA_POINTS)] = compensated_gas]

\* The array after the replace-smallest branch.
ReplaceSmallest(data, compensated_gas) ==
    LET s == SmallestIndex(data, GAS_CALIBRATION_DATA_POINTS)
    IN  IF FGt(compensated_gas, data[s])
        THEN [data EXCEPT ![s] = compensated_gas]
        ELSE data

\* The cursor after one append.
NextIndex(index) ==
    IF index + 1 >= GAS_CALIBRATION_DATA_POINTS THEN 0 ELSE index + 1

\* A variant of CalStats that counts every slot, the empty ones too.
RECURSIVE CalStats_CountsEmptySlots(_, _)
CalStats_CountsEmptySlots(data, n) ==
    IF n = 0 THEN <<F(0), F(0), F(0), 0>>
    ELSE LET acc == CalStats_CountsEmptySlots(data, n - 1)
             dataPoint == data[n]
         IN  IF FGt(dataPoint, F(0))
             THEN << FAdd(acc[1], dataPoint),
                     IF acc[2] = F(0) THEN dataPoint ELSE FMin(acc[2], dataPoint),
                     IF acc[3] = F(0) THEN dataPoint ELSE FMax(acc[3], dataPoint),
                     acc[4] + 1 >>
             ELSE << acc[1], acc[2], acc[3], acc[4] + 1 >>

\* Sum, minimum, maximum and count of the slots 1..n that are > 0, as the
\* statistics loop accumulates them: <<sum, calMin, calMax, count>>.
RECURSIVE CalStats(_, _)
CalStats(data, n) ==
    IF n = 0 THEN <<F(0), F(0), F(0), 0>>
    ELSE LET acc == CalStats(data, n - 1)
             dataPoint == data[n]
         IN  IF FGt(dataPoint, F(0))
             THEN << FAdd(acc[1], dataPoint),
                     IF acc[2] = F(0) THEN dataPoint ELSE FMin(acc[2], dataPoint),
                     IF acc[3] = F(0) THEN dataPoint ELSE FMax(acc[3], dataPoint),
                     acc[4] + 1 >>
             ELSE acc

\* gas_calibration_range and gas_ceiling after the statistics loop.
Recalculate(cal, data, index) ==
    LET st     == CalStats(data, GAS_CALIBRATION_DATA_POINTS)
        calMin == st[2]
        calMax == st[3]
        count  == st[4]
        mean   == FDiv(st[1], F(count))
    IN  [ data    |-> data,
          index   |-> index,
          range   |-> IF count > 0 /\ FGt(calMax, F(0))
                      THEN FDiv(FSub(calMax, calMin), calMax)
                      ELSE cal.range,
          ceiling |-> IF count > 0 /\ ~isnan(mean) THEN mean ELSE cal.ceiling ]

\* SE_BME680::updateGasCalibration(compensated_gas, replaceSmallest)
updateGasCalibration(cal, compensated_gas, replaceSmallest) ==
    IF replaceSmallest /\ LastSlotSet(cal.data)
    THEN Recalculate(cal, ReplaceSmallest(cal.data, compensated_gas), cal.index)
    ELSE Recalculate(cal, [cal.data EXCEPT ![cal.index + 1] = compensated_gas],
                     NextIndex(cal.index))

\* ------------------------------------------------------------------ state

VARIABLES
    millis,                       \* the clock millis() reads
    gas_calibration_data,
    gas_calibration_data_index,
    gas_ceiling,
    gas_calibration_range,
    gas_calibration_timer,
    gas_calibration_stage,
    gas_stage_0_last_low,
    gas_stage_0_low_count,
    gas_resistance_limit_min,
    gas_resistance_limit_max,
    gas_calibration_init_time,
    gas_calibration_burnin_time,
    gas_calibration_decay_time,
    iaq_slope_factor,
    sensor_uptime,
    IAQ,
    IAQ_accuracy,
    donchian_enabled,
    temperature_donchian,
    humidity_donchian,
    gas_resistance_donchian,
    run,                          \* history: while in the initialization
                                  \* stage, the processed readings in a row,
                                  \* up to the last one, that were higher
                                  \* than the last low (0 in later stages)
    entered,                      \* history: millis() when the current stage
                                  \* was entered
    tracked,                      \* history: the samples a DonchianAverage
                                  \* used on its own was given, oldest first
    counted                       \* history: millis() when sensor_uptime was
                                  \* last incremented, before that when the
                                  \* current stage was entered

engine == << gas_calibration_data, gas_calibration_data_index, gas_ceiling,
             gas_calibration_range, gas_calibration_timer,
             gas_calibration_stage, gas_stage_0_last_low,
             gas_stage_0_low_count, sensor_uptime, IAQ, IAQ_accuracy >>

trackers == << temperature_donchian, humidity_donchian, gas_resistance_donchian >>

config == << gas_resistance_limit_min, gas_resistance_limit_max,
             gas_calibration_init_time, gas_calibration_burnin_time,
             gas_calibration_decay_time, iaq_slope_factor, donchian_enabled >>

history == << run, entered, tracked, counted >>

vars == << millis, engine, trackers, config, history >>

\* A tracker pointer that is still nullptr.
nullptr == NewDonchian(0, F(0))

\* SE_BME680::initialize() and the member initializers of SE_BME680.h
Init ==
    /\ millis = 0
    /\ gas_calibration_data = [i \in 1..GAS_CALIBRATION_DATA_POINTS |-> F(0)]
    /\ gas_calibration_stage = 0
    /\ gas_calibration_data_index = 0
    /\ gas_calibration_range = F(1)
    /\ gas_ceiling = F(0)
    /\ IAQ = F(50)
    /\ IAQ_accuracy = 0
    /\ sensor_uptime = 0
    /\ gas_stage_0_last_low = 0
    /\ gas_stage_0_low_count = 0
    /\ gas_calibration_timer = millis
    /\ gas_resistance_limit_min = DEFAULT_LIMIT_MIN
    /\ gas_resistance_limit_max = DEFAULT_LIMIT_MAX
    /\ gas_calibration_init_time = DEFAULT_INIT_TIME
    /\ gas_calibration_burnin_time = DEFAULT_BURNIN_TIME
    /\ gas_calibration_decay_time = DEFAULT_DECAY_TIME
    /\ iaq_slope_factor = <<3, 100>>
    /\ donchian_enabled = FALSE
    /\ temperature_donchian = nullptr
    /\ humidity_donchian = nullptr
    /\ gas_resistance_donchian = nullptr
    /\ run = 0
    /\ entered = millis
    /\ tracked = << >>
    /\ counted = millis

\* ------------------------------------------------------------ calculateIAQ

\* millis() - gas_calibration_timer, in unsigned arithmetic.
Elapsed(now, timer) == (now - timer + TimerModulus) % TimerModulus

\* An int stage duration converted to unsigned long for the comparison
\* with the elapsed time.
ToUnsigned(x) == x % TimerModulus

\* A variant of PenalizedTimer that forgets the test of the stage.
PenalizedTimer_AllStages(stage, timer) == (timer + PENALTY) % TimerModulus

\* gas_calibration_timer after a reading above the sanity limit.
PenalizedTimer(stage, timer) ==
    IF stage < 2 THEN (timer + PENALTY) % TimerModulus ELSE timer

\* Saturation vapour density (kg/m^3) at the smoothed temperature.  The
\* model feeds one temperature, 25 degrees Celsius, where the Magnus
\* expression evaluates to 0.023.
SaturationVapourDensity(temperature_smoothed) == <<23, 1000>>

\* exp(x) for a finite x, +infinity and NaN: 1 at 0, +infinity above the
\* overflow threshold of a double, 0 below its underflow threshold, NaN
\* at NaN, one finite value above 1 for the other x > 0 and one between
\* 0 and 1 for the other x < 0.
EXP_OVERFLOW == 709
EXP_UNDERFLOW == 745
FExp(x) ==
    IF isnan(x) THEN NaN
    ELSE IF IsInf(x) \/ FGt(x, F(EXP_OVERFLOW)) THEN Inf
    ELSE IF FLt(x, F(0 - EXP_UNDERFLOW)) THEN F(0)
    ELSE IF x = F(0) THEN F(1)
    ELSE IF FLt(x, F(0)) THEN <<1, 2>>
    ELSE F(2)

\* factor = exp(iaq_slope_factor * hum_abs)
HumidityFactor(slope, temperature_smoothed, humidity_smoothed) ==
    LET svd     == SaturationVapourDensity(temperature_smoothed)
        hum_abs == FMul(FMul(humidity_smoothed, F(10)), svd)
    IN  FExp(FMul(slope, hum_abs))

\* A variant of Stage0 that moves to stage 2 where the source moves to
\* stage 1.
Stage0_SkipsBurnIn(e, gas_resistance, now, init_time) ==
    IF Elapsed(now, e.timer) >= ToUnsigned(init_time)
    THEN IF e.last_low = 0 \/ gas_resistance < e.last_low
         THEN [e EXCEPT !.last_low = gas_resistance, !.low_count = 0]
         ELSE IF gas_resistance > e.last_low
         THEN IF e.low_count + 1 >= HIGHER_LOWS
              THEN [e EXCEPT !.low_count = e.low_count + 1,
                             !.timer = now, !.stage = 2]
              ELSE [e EXCEPT !.low_count = e.low_count + 1]
         ELSE e
    ELSE e

\* The initialization stage (case 0) on the engine record e.
Stage0(e, gas_resistance, now, init_time) ==
    IF Elapsed(now, e.timer) >= ToUnsigned(init_time)
    THEN IF e.last_low = 0
         THEN [e EXCEPT !.last_low = gas_resistance, !.low_count = 0]
         ELSE IF gas_resistance < e.last_low
         THEN [e EXCEPT !.last_low = gas_resistance, !.low_count = 0]
         ELSE IF gas_resistance > e.last_low
         THEN IF e.low_count + 1 >= HIGHER_LOWS
              THEN [e EXCEPT !.low_count = e.low_count + 1,
                             !.timer = now, !.stage = 1]
              ELSE [e EXCEPT !.low_count = e.low_count + 1]
         ELSE e
    ELSE e

\* The burn-in stage goes on while this holds.
BurnInContinues(e, now, burnin_time) ==
    \/ Elapsed(now, e.timer) < ToUnsigned(burnin_time)
    \/ e.cal.data[GAS_CALIBRATION_DATA_POINTS] = F(0)

\* The burn-in stage (case 1).
Stage1(e, r, rmin, now, burnin_time) ==
    IF BurnInContinues(e, now, burnin_time)
    THEN [e EXCEPT !.cal = updateGasCalibration(e.cal, FMax(r, rmin), TRUE)]
    ELSE [e EXCEPT !.timer = now, !.stage = 2]

\* A variant of Stage2 whose rotation leaves the timer as it is.
Stage2_KeepsTimer(e, r, rmin, now, decay_time) ==
    IF FGt(r, rmin)
    THEN IF FGt(r, e.cal.ceiling)
         THEN [e EXCEPT !.cal = updateGasCalibration(e.cal, r, TRUE)]
         ELSE IF Elapsed(now, e.timer) >= ToUnsigned(decay_time)
         THEN [e EXCEPT !.cal = updateGasCalibration(e.cal, r, FALSE),
                        !.uptime = e.uptime + 1]
         ELSE e
    ELSE e

\* A variant of Stage2 that counts every update of the array as uptime.
Stage2_CountsEveryFold(e, r, rmin, now, decay_time) ==
    IF FGt(r, rmin)
    THEN IF FGt(r, e.cal.ceiling)
         THEN [e EXCEPT !.cal = updateGasCalibration(e.cal, r, TRUE),
                        !.uptime = e.uptime + 1]
         ELSE IF Elapsed(now, e.timer) >= ToUnsigned(decay_time)
         THEN [e EXCEPT !.cal = updateGasCalibration(e.cal, r, FALSE),
                        !.timer = now,
                        !.uptime = e.uptime + 1]
         ELSE e
    ELSE e

\* A variant of Stage2 that rotates only once more than the decay time
\* has passed.
Stage2_DecayStrictlyLater(e, r, rmin, now, decay_time) ==
    IF FGt(r, rmin)
    THEN IF FGt(r, e.cal.ceiling)
         THEN [e EXCEPT !.cal = updateGasCalibration(e.cal, r, TRUE)]
         ELSE IF Elapsed(now, e.timer) > ToUnsigned(decay_time)
         THEN [e EXCEPT !.cal = updateGasCalibration(e.cal, r, FALSE),
                        !.timer = now,
                        !.uptime = e.uptime + 1]
         ELSE e
    ELSE e

\* A variant of Stage2 that tests the decay time before the ceiling.
Stage2_DecayFirst(e, r, rmin, now, decay_time) ==
    IF FGt(r, rmin)
    THEN IF Elapsed(now, e.timer) >= ToUnsigned(decay_time)
         THEN [e EXCEPT !.cal = updateGasCalibration(e.cal, r, FALSE),
                        !.timer = now,
                        !.uptime = e.uptime + 1]
         ELSE IF FGt(r, e.cal.ceiling)
         THEN [e EXCEPT !.cal = updateGasCalibration(e.cal, r, TRUE)]
         ELSE e
    ELSE e

\* The normal operation stage (case 2).
Stage2(e, r, rmin, now, decay_time) ==
    IF FGt(r, rmin)
    THEN IF FGt(r, e.cal.ceiling)
         THEN [e EXCEPT !.cal = updateGasCalibration(e.cal, r, TRUE)]
         ELSE IF Elapsed(now, e.timer) >= ToUnsigned(decay_time)
         THEN [e EXCEPT !.cal = updateGasCalibration(e.cal, r, FALSE),
                        !.timer = now,
                        !.uptime = e.uptime + 1]
         ELSE e
    ELSE e

\* A variant of StageStep whose case 0 lacks its break and falls through
\* into case 1.
StageStep_FallThrough(e, gas_resistance, r, rmin, now, init_time, burnin_time, decay_time) ==
    CASE e.stage = 0 -> Stage1(Stage0(e, gas_resistance, now, init_time),
                               r, rmin, now, burnin_time)
      [] e.stage = 1 -> Stage1(e, r, rmin, now, burnin_time)
      [] e.stage = 2 -> Stage2(e, r, rmin, now, decay_time)

\* switch (gas_calibration_stage)
StageStep(e, gas_resistance, r, rmin, now, init_time, burnin_time, decay_time) ==
    CASE e.stage = 0 -> Stage0(e, gas_resistance, now, init_time)
      [] e.stage = 1 -> Stage1(e, r, rmin, now, burnin_time)
      [] e.stage = 2 -> Stage2(e, r, rmin, now, decay_time)

\* min((float)quality, 100.0F).  With a NaN quality the Arduino macro
\* ((a)<(b)?(a):(b)) yields 100 and std::min (the cores that put it in
\* scope) yields NaN: both outcomes are kept.
MinWith100(quality) ==
    IF isnan(quality) THEN {F(100), NaN} ELSE {FMin(quality, F(100))}

\* The values IAQ may take after the IAQ computation.
IAQValues(r, ceiling, iaq) ==
    IF ceiling # F(0)
    THEN LET ratio == FDiv(r, ceiling)
         IN  MinWith100(FMul(FMul(ratio, ratio), F(100)))
    ELSE {iaq}

\* A variant of Accuracy that tests the uptime of accuracy 4 with == where
\* the source has >=.
Accuracy_VeryHighOnlyAtThreshold(stage, range, uptime) ==
    CASE stage = 0 -> 0
      [] stage = 1 -> 1
      [] stage = 2 ->
           LET a1 == 1
               a2 == IF FLt(range, <<75, 1000>>) THEN 2 ELSE a1
               a3 == IF FLt(range, <<35, 1000>>) /\ uptime >= UPTIME_HIGH
                     THEN 3 ELSE a2
           IN  IF FLt(range, <<20, 1000>>) /\ uptime = UPTIME_VERY_HIGH
               THEN 4 ELSE a3

\* A variant of Accuracy whose test for accuracy 3 forgets the uptime.
Accuracy_HighWithoutUptime(stage, range, uptime) ==
    CASE stage = 0 -> 0
      [] stage = 1 -> 1
      [] stage = 2 ->
           LET a1 == 1
               a2 == IF FLt(range, <<75, 1000>>) THEN 2 ELSE a1
               a3 == IF FLt(range, <<35, 1000>>) THEN 3 ELSE a2
           IN  IF FLt(range, <<20, 1000>>) /\ uptime >= UPTIME_VERY_HIGH
               THEN 4 ELSE a3

\* IAQ_accuracy from the stage, the calibration range and the uptime: in
\* stage 2 the three tests run one after the other and the last one that
\* passes sets the value.
Accuracy(stage, range, uptime) ==
    CASE stage = 0 -> 0
      [] stage = 1 -> 1
      [] stage = 2 ->
           LET a1 == 1
               a2 == IF FLt(range, <<75, 1000>>) THEN 2 ELSE a1
               a3 == IF FLt(range, <<35, 1000>>) /\ uptime >= UPTIME_HIGH
                     THEN 3 ELSE a2
           IN  IF FLt(range, <<20, 1000>>) /\ uptime >= UPTIME_VERY_HIGH
               THEN 4 ELSE a3

\* The history variable run after a processed reading: e is the engine
\* record before the reading and e1 the one after it.
RunAfter(e, e1, gas_resistance, now, init_time) ==
    IF e1.stage # 0 THEN 0
    ELSE IF Elapsed(now, e.timer) >= ToUnsigned(init_time)
    THEN IF e.last_low # 0 /\ gas_resistance > e.last_low
         THEN (IF run < HIGHER_LOWS THEN run + 1 ELSE run)
         ELSE 0
    ELSE run

\* The engine fields the stage switch works on, as one record.
EngineRecord ==
    [ stage     |-> gas_calibration_stage,
      timer     |-> gas_calibration_timer,
      last_low  |-> gas_stage_0_last_low,
      low_count |-> gas_stage_0_low_count,
      uptime    |-> sensor_uptime,
      cal       |-> [ data    |-> gas_calibration_data,
                      index   |-> gas_calibration_data_index,
                      ceiling |-> gas_ceiling,
                      range   |-> gas_calibration_range ] ]

\* Whether this cycle smooths its readings.
Smoothing == donchian_enabled /\ gas_calibration_stage >= 1

\* The smoothing and compensation steps of calculateIAQ on the current
\* state: the trackers after their track() calls, and compensated_gas_r
\* and compensated_gas_r_min.
Compensate(temperature, humidity, gas_resistance) ==
    LET td == IF Smoothing
              THEN DonchianTrack(temperature_donchian, temperature)
              ELSE temperature_donchian
        hd == IF Smoothing
              THEN DonchianTrack(humidity_donchian, humidity)
              ELSE humidity_donchian
        gd == IF Smoothing
              THEN DonchianTrack(gas_resistance_donchian, F(gas_resistance))
              ELSE gas_resistance_donchian
        gas_resistance_smoothed ==
              IF Smoothing THEN RoundToInt(gd.average) ELSE gas_resistance
        factor == HumidityFactor(iaq_slope_factor,
                                 IF Smoothing THEN td.average ELSE temperature,
                                 IF Smoothing THEN hd.average ELSE humidity)
    IN  [ td   |-> td,
          hd   |-> hd,
          gd   |-> gd,
          r    |-> FMul(F(gas_resistance_smoothed), factor),
          rmin |-> FMul(F(gas_resistance_limit_min), factor) ]

\* SE_BME680::calculateIAQ() on the readings endReading() obtained.
calculateIAQ(temperature, humidity, gas_resistance) ==
    /\ UNCHANGED << millis, config >>
    /\ IF gas_resistance > gas_resistance_limit_max
       THEN /\ gas_calibration_timer' =
                  PenalizedTimer(gas_calibration_stage, gas_calibration_timer)
            /\ UNCHANGED << gas_calibration_data, gas_calibration_data_index,
                            gas_ceiling, gas_calibration_range,
                            gas_calibration_stage, gas_stage_0_last_low,
                            gas_stage_0_low_count, sensor_uptime, IAQ,
                            IAQ_accuracy, trackers, history >>
       ELSE \E c \in {Compensate(temperature, humidity, gas_resistance)} :
                /\ temperature_donchian' = c.td
                /\ humidity_donchian' = c.hd
                /\ gas_resistance_donchian' = c.gd
                /\ IF isnan(c.r) \/ isnan(c.rmin)
                   THEN UNCHANGED << engine, history >>
                   ELSE \E e \in {StageStep(EngineRecord, gas_resistance,
                                            c.r, c.rmin, millis,
                                            gas_calibration_init_time,
                                            gas_calibration_burnin_time,
                                            gas_calibration_decay_time)} :
                            /\ gas_calibration_stage' = e.stage
                            /\ gas_calibration_timer' = e.timer
                            /\ gas_stage_0_last_low' = e.last_low
                            /\ gas_stage_0_low_count' = e.low_count
                            /\ sensor_uptime' = e.uptime
                            /\ gas_calibration_data' = e.cal.data
                            /\ gas_calibration_data_index' = e.cal.index
                            /\ gas_ceiling' = e.cal.ceiling
                            /\ gas_calibration_range' = e.cal.range
                            /\ IAQ' \in IAQValues(c.r, e.cal.ceiling, IAQ)
                            /\ IAQ_accuracy' = Accuracy(e.stage, e.cal.range, e.uptime)
                            /\ run' = RunAfter(EngineRecord, e, gas_resistance, millis,
                                               gas_calibration_init_time)
                            /\ entered' = IF e.stage # gas_calibration_stage
                                           THEN millis ELSE entered
                            /\ tracked' = tracked
                            /\ counted' = IF \/ e.stage # gas_calibration_stage
                                              \/ e.uptime # sensor_uptime
                                           THEN millis ELSE counted

\* SE_BME680::getGasCalibrationAccuracy()
getGasCalibrationAccuracy ==
    FMul(FSub(F(1), gas_calibration_range), F(100))

\* ----------------------------------------------------------------- setters

\* Every operation but calculateIAQ leaves the engine's run-time state alone.
SetterFrame == UNCHANGED << millis, engine, trackers, history >>

\* SE_BME680::setDonchianSmoothing(enabled, periods).  The definition takes
\* no range limits: each tracker is built with the constructor's default,
\* rangeLimitMax = 0.
setDonchianSmoothing(enabled, periods) ==
    /\ IF enabled /\ periods >= 2
       THEN /\ donchian_enabled' = enabled
            /\ temperature_donchian' = NewDonchian(periods, F(0))
            /\ humidity_donchian' = NewDonchian(periods, F(0))
            /\ gas_resistance_donchian' = NewDonchian(periods, F(0))
       ELSE UNCHANGED << donchian_enabled, trackers >>
    /\ UNCHANGED << millis, engine, history, gas_resistance_limit_min,
                    gas_resistance_limit_max, gas_calibration_init_time,
                    gas_calibration_burnin_time, gas_calibration_decay_time,
                    iaq_slope_factor >>

\* SE_BME680::setGasCompensationSlopeFactor(slopeFactor)
setGasCompensationSlopeFactor(slopeFactor) ==
    /\ iaq_slope_factor' = slopeFactor
    /\ SetterFrame
    /\ UNCHANGED << gas_resistance_limit_min, gas_resistance_limit_max,
                    gas_calibration_init_time, gas_calibration_burnin_time,
                    gas_calibration_decay_time, donchian_enabled >>

\* A variant of LimitsValid that forgets to compare the two limits.
LimitsValid_Unordered(minLimit, maxLimit) ==
    minLimit >= LOWEST_LIMIT_MIN /\ maxLimit <= HIGHEST_LIMIT_MAX

\* The test of setUpperGasResistanceLimits.
LimitsValid(minLimit, maxLimit) ==
    minLimit >= LOWEST_LIMIT_MIN /\ maxLimit <= HIGHEST_LIMIT_MAX /\ minLimit <= maxLimit

\* The value setUpperGasResistanceLimits returns: true when the limits
\* were set.
LimitsReturn(minLimit, maxLimit) == LimitsValid(minLimit, maxLimit)

\* SE_BME680::setUpperGasResistanceLimits(minLimit, maxLimit)
setUpperGasResistanceLimits(minLimit, maxLimit) ==
    /\ IF LimitsValid(minLimit, maxLimit)
       THEN /\ gas_resistance_limit_min' = minLimit
            /\ gas_resistance_limit_max' = maxLimit
       ELSE UNCHANGED << gas_resistance_limit_min, gas_resistance_limit_max >>
    /\ SetterFrame
    /\ UNCHANGED << gas_calibration_init_time, gas_calibration_burnin_time,
                    gas_calibration_decay_time, iaq_slope_factor, donchian_enabled >>

\* The largest int, narrowed like the timer (see the head of the module).
INT_MAX == 2 ^ (TimerBits - 1) - 1

\* A variant of RaisedTo that never raises: it keeps the argument.
RaisedTo_KeepsArgument(x, y, gap) == {x}

\* The values `x < y + gap ? y + gap : x` may yield for ints x, y.  When
\* y + gap overflows the behaviour is undefined: the comparison may come
\* out either way, and the sum wraps.
RaisedTo(x, y, gap) ==
    IF y + gap <= INT_MAX
    THEN {IF x < y + gap THEN y + gap ELSE x}
    ELSE {x, y + gap - 2 * (INT_MAX + 1)}

\* The test of setGasCalibrationTimings.
TimingsValid(initTime, burninTime, decayTime) ==
    initTime > 0 /\ burninTime >= initTime /\ decayTime >= burninTime

\* The value setGasCalibrationTimings returns: true when the timings were
\* set.
TimingsReturn(initTime, burninTime, decayTime) ==
    TimingsValid(initTime, burninTime, decayTime)

\* SE_BME680::setGasCalibrationTimings(initTime, burninTime, decayTime)
setGasCalibrationTimings(initTime, burninTime, decayTime) ==
    /\ IF TimingsValid(initTime, burninTime, decayTime)
       THEN LET i == IF initTime < MIN_INIT_TIME THEN MIN_INIT_TIME ELSE initTime
            IN  \E b \in RaisedTo(burninTime, i, MIN_BURNIN_GAP) :
                \E d \in RaisedTo(decayTime, b, MIN_DECAY_GAP) :
                    /\ gas_calibration_init_time' = i
                    /\ gas_calibration_burnin_time' = b
                    /\ gas_calibration_decay_time' = d
       ELSE UNCHANGED << gas_calibration_init_time, gas_calibration_burnin_time,
                         gas_calibration_decay_time >>
    /\ SetterFrame
    /\ UNCHANGED << gas_resistance_limit_min, gas_resistance_limit_max,
                    iaq_slope_factor, donchian_enabled >>

\* ------------------------------------------------------------------- clock

\* Time passes: millis() advances by one tick.
Tick ==
    /\ millis < MaxNow
    /\ millis' = millis + 1
    /\ UNCHANGED << engine, trackers, config, history >>

\* ------------------------------------------------------------ the system

\* The readings and the arguments fed to the engine.
Temperatures == {F(25)}
Humidities == {F(40)}
GasReadings == {40, 60, 300}
SlopeFactors == {<<3, 100>>, F(100), NaN}
LimitArguments == {<<50, 225>>, <<20, 225>>}
TimingArguments == {<<1, 1, 1>>, <<2, 1, 5>>}
SmoothingArguments == {<<FALSE, 2>>, <<TRUE, 1>>}

Next ==
    \/ Tick
    \/ \E t \in Temperatures, h \in Humidities, g \in GasReadings :
           calculateIAQ(t, h, g)
    \/ \E s \in SlopeFactors : setGasCompensationSlopeFactor(s)
    \/ \E a \in LimitArguments : setUpperGasResistanceLimits(a[1], a[2])
    \/ \E a \in TimingArguments : setGasCalibrationTimings(a[1], a[2], a[3])
    \/ \E a \in SmoothingArguments : setDonchianSmoothing(a[1], a[2])

Spec == Init /\ [][Next]_vars

\* The system with Donchian smoothing switched on by the caller, the other
\* settings left at their defaults: the range trackers are in use from the
\* burn-in stage on.
EnabledSmoothing == {<<TRUE, 2>>}

NextSmooth ==
    \/ Tick
    \/ \E t \in Temperatures, h \in Humidities, g \in GasReadings :
           calculateIAQ(t, h, g)
    \/ \E a \in EnabledSmoothing : setDonchianSmoothing(a[1], a[2])

SpecSmooth == Init /\ [][NextSmooth]_vars

\* The system while the caller changes the slope factor between the
\* default and a large negative value, the other settings left at their
\* defaults.
NegativeSlopeFactors == {<<3, 100>>, F(0 - 100)}

NextSlope ==
    \/ Tick
    \/ \E t \in Temperatures, h \in Humidities, g \in GasReadings :
           calculateIAQ(t, h, g)
    \/ \E s \in NegativeSlopeFactors : setGasCompensationSlopeFactor(s)

SpecSlope == Init /\ [][NextSlope]_vars

\* setDonchianSmoothing as SE_BME680.h declares it, with a range limit for
\* each channel.  The definition takes (enabled, periods) only, so the
\* three limits reach no constructor.
setDonchianSmoothingLimits(enabled, periods, temperatureRangeLimitMax, humidityRangeLimitMax, gasResistanceRangeLimitMax) ==
    setDonchianSmoothing(enabled, periods)

\* The system with smoothing switched on with a range limit per channel.
SmoothingLimitArguments == {<<TRUE, 2, F(1), F(5), F(10)>>}

NextSmoothLimits ==
    \/ Tick
    \/ \E t \in Temperatures, h \in Humidities, g \in GasReadings :
           calculateIAQ(t, h, g)
    \/ \E a \in SmoothingLimitArguments :
           setDonchianSmoothingLimits(a[1], a[2], a[3], a[4], a[5])

SpecSmoothLimits == Init /\ [][NextSmoothLimits]_vars

\* The system over a long run, polled on a schedule: the clock, which
\* wraps like millis(), advances while the minimum time of the current
\* stage has not passed, and readings are taken once it has.  The humidity
\* reading may be NaN (a cycle that is discarded), and in stage 2 the gas
\* reading may be above the upper limit (a cycle that is rejected).

\* The largest uptime a long run reaches.
MaxUptime == 101

LongRunHumidities == {F(40), NaN}
LongRunGasReadings == {60, 62, 65, 300}

\* The minimum time of the current stage has passed.
StageTimeDue ==
    Elapsed(millis, gas_calibration_timer) >=
        ToUnsigned(CASE gas_calibration_stage = 0 -> gas_calibration_init_time
                     [] gas_calibration_stage = 1 -> gas_calibration_burnin_time
                     [] gas_calibration_stage = 2 -> gas_calibration_decay_time)

\* millis() advances by one tick, modulo the width of the timer.
TickUntilDue ==
    /\ ~StageTimeDue
    /\ millis' = (millis + 1) % TimerModulus
    /\ UNCHANGED << engine, trackers, config, history >>

\* A reading taken when the stage's time is due.
ReadingWhenDue(temperature, humidity, gas_resistance) ==
    /\ StageTimeDue
    /\ sensor_uptime < MaxUptime
    /\ gas_resistance > gas_resistance_limit_max => gas_calibration_stage = 2
    /\ calculateIAQ(temperature, humidity, gas_resistance)

NextLongRun ==
    \/ TickUntilDue
    \/ \E t \in Temperatures, h \in LongRunHumidities, g \in LongRunGasReadings :
           ReadingWhenDue(t, h, g)

SpecLongRun == Init /\ [][NextLongRun]_vars

\* The system in the normal operation stage: polled on the schedule above
\* until that stage is entered, and from then on at any time before the
\* decay time is due and up to one tick after it, the clock wrapping like
\* millis(), until the array has been rotated MaxRotations times.  The gas
\* readings lie below the lower limit, between the limits and above the
\* upper limit; the humidity reading may be NaN.
MaxRotations == 3

NormalGasReadings == {40, 60, 65, 300}

TickNormal ==
    /\ IF gas_calibration_stage = 2
       THEN Elapsed(millis, gas_calibration_timer)
                <= ToUnsigned(gas_calibration_decay_time)
       ELSE ~StageTimeDue
    /\ millis' = (millis + 1) % TimerModulus
    /\ UNCHANGED << engine, trackers, config, history >>

ReadingNormal(temperature, humidity, gas_resistance) ==
    /\ gas_calibration_stage = 2 \/ StageTimeDue
    /\ sensor_uptime < MaxRotations
    /\ gas_resistance > gas_resistance_limit_max => gas_calibration_stage = 2
    /\ calculateIAQ(temperature, humidity, gas_resistance)

NextNormal ==
    \/ TickNormal
    \/ \E t \in Temperatures, h \in LongRunHumidities, g \in NormalGasReadings :
           ReadingNormal(t, h, g)

SpecNormal == Init /\ [][NextNormal]_vars

\* updateGasCalibration on its own: from the state initialize() leaves,
\* the method is called with any of a few positive values and with either
\* value of replaceSmallest.
CalibrationValues == {F(100), F(110), F(120), F(130)}

\* One call of updateGasCalibration(compensated_gas, replaceSmallest).
UpdateCall(compensated_gas, replaceSmallest) ==
    /\ \E u \in {updateGasCalibration(EngineRecord.cal, compensated_gas,
                                      replaceSmallest)} :
           /\ gas_calibration_data' = u.data
           /\ gas_calibration_data_index' = u.index
           /\ gas_ceiling' = u.ceiling
           /\ gas_calibration_range' = u.range
    /\ UNCHANGED << gas_calibration_timer, gas_calibration_stage,
                    gas_stage_0_last_low, gas_stage_0_low_count, sensor_uptime,
                    IAQ, IAQ_accuracy, millis, trackers, config, history >>

NextCalibration ==
    \E v \in CalibrationValues, replaceSmallest \in BOOLEAN :
        UpdateCall(v, replaceSmallest)

SpecCalibration == Init /\ [][NextCalibration]_vars

\* ------------------------------------------- the range tracker on its own

\* DonchianAverage is a class of its own: one object of it, with or without
\* a range limit, held in temperature_donchian and given samples directly.

\* Capacity of the object and number of track() calls followed.
TrackerSize == 3
MaxTracked == 5

\* rangeLimitMax of the object: none (the default argument) or 2.
RangeLimits == {F(0), F(2)}

\* Samples: below zero, steps inside the limit and jumps beyond it.
TrackerSamples == {F(-1), F(1), F(2), F(4), F(5)}

\* new DonchianAverage(TrackerSize, rangeLimitMax)
Construct(rangeLimitMax) ==
    /\ temperature_donchian = nullptr
    /\ temperature_donchian' = NewDonchian(TrackerSize, rangeLimitMax)
    /\ UNCHANGED << millis, engine, humidity_donchian, gas_resistance_donchian,
                    config, history >>

\* track(dataPoint) on the object
TrackCall(dataPoint) ==
    /\ temperature_donchian # nullptr
    /\ Len(tracked) < MaxTracked
    /\ temperature_donchian' = DonchianTrack(temperature_donchian, dataPoint)
    /\ tracked' = Append(tracked, dataPoint)
    /\ UNCHANGED << millis, engine, humidity_donchian, gas_resistance_donchian,
                    config, run, entered, counted >>

NextTracker ==
    \/ \E rangeLimitMax \in RangeLimits : Construct(rangeLimitMax)
    \/ \E dataPoint \in TrackerSamples : TrackCall(dataPoint)

SpecTracker == Init /\ [][NextTracker]_vars

\* ------------------------------------------------- the engine reconfigured

\* The engine while the caller changes the gas resistance limits between
\* readings, with arguments on both sides of every bound the setter tests.
ConfigLimitValues ==
    {LOWEST_LIMIT_MIN - 1, LOWEST_LIMIT_MIN, HIGHEST_LIMIT_MAX,
     HIGHEST_LIMIT_MAX + 1}

\* A reading between the lowest and the highest limit that can be set:
\* accepted or rejected as the caller moves the upper limit.
LimitGasReadings == {60}

NextLimits ==
    \/ Tick
    \/ \E t \in Temperatures, h \in Humidities, g \in LimitGasReadings :
           calculateIAQ(t, h, g)
    \/ \E minLimit \in ConfigLimitValues, maxLimit \in ConfigLimitValues :
           setUpperGasResistanceLimits(minLimit, maxLimit)

SpecLimits == Init /\ [][NextLimits]_vars

\* The engine while the caller changes the stage timings between readings,
\* with arguments from zero up to the largest int.
ConfigTimingValues == {0, 1, 2, INT_MAX - 1, INT_MAX}
ConfigGasReadings == {20, 60}

NextTimings ==
    \/ Tick
    \/ \E t \in Temperatures, h \in Humidities, g \in ConfigGasReadings :
           calculateIAQ(t, h, g)
    \/ \E initTime \in ConfigTimingValues, burninTime \in ConfigTimingValues,
          decayTime \in ConfigTimingValues :
           setGasCalibrationTimings(initTime, burninTime, decayTime)

SpecTimings == Init /\ [][NextTimings]_vars

\* ----------------------------------------------------------- stage order

\* C1: every change of gas_calibration_stage is 0 -> 1 or 1 -> 2, and the
\* stage stays in {0, 1, 2}: the stage never regresses and never skips.
C1_StageOnlyAdvances ==
    /\ [](gas_calibration_stage \in {0, 1, 2})
    /\ [][ \/ gas_calibration_stage' = gas_calibration_stage
           \/ gas_calibration_stage = 0 /\ gas_calibration_stage' = 1
           \/ gas_calibration_stage = 1 /\ gas_calibration_stage' = 2 ]_vars

\* Both changes of stage have happened.
C1_ReachedNormal == gas_calibration_stage = 2

\* ------------------------------------------------- leaving initialization

\* C2: the stage changes from 0 to 1 only on a cycle where the three most
\* recent processed readings, this one included, were each strictly greater
\* than the last low: a seeding reading, a lower reading and a reading
\* equal to the last low all break the run of higher readings.
C2_ThreeHigherReadingsInARow ==
    [][ (gas_calibration_stage = 0 /\ gas_calibration_stage' = 1)
            => run >= HIGHER_LOWS - 1 ]_vars

\* C3: the engine never leaves stage 0 before gas_calibration_init_time
\* has passed on the clock since initialize(), which ran at millis() = 0,
\* whatever readings were rejected in between.
C3_InitTimeOnTheClock ==
    [][ (gas_calibration_stage = 0 /\ gas_calibration_stage' # 0)
            => millis >= ToUnsigned(gas_calibration_init_time) ]_vars

\* ------------------------------------------------------- leaving burn-in

\* Every slot of the calibration array holds a value.
BufferFullyPopulated ==
    \A i \in 1..GAS_CALIBRATION_DATA_POINTS : gas_calibration_data[i] # F(0)

\* The burn-in time has passed on the clock since stage 1 was entered and
\* the calibration array is fully populated.
BurnInComplete ==
    /\ millis - entered >= ToUnsigned(gas_calibration_burnin_time)
    /\ BufferFullyPopulated

\* C4: the stage changes from 1 to 2 only on a cycle where the burn-in time
\* has passed on the clock since stage 1 was entered and the calibration
\* array is fully populated; every other processed cycle of stage 1 feeds
\* max(compensated reading, compensated floor) to updateGasCalibration with
\* replaceSmallest set and stays in stage 1.
C4_BurnInEndsOnTimeAndFullBuffer ==
    [][ /\ (gas_calibration_stage = 1 /\ gas_calibration_stage' = 2)
               => BurnInComplete
        /\ \A t \in Temperatures, h \in Humidities, g \in GasReadings :
             \A c \in {Compensate(t, h, g)} :
               ( /\ gas_calibration_stage = 1
                 /\ g <= gas_resistance_limit_max
                 /\ ~isnan(c.r) /\ ~isnan(c.rmin)
                 /\ ~BurnInComplete
                 /\ calculateIAQ(t, h, g) )
               => /\ gas_calibration_stage' = 1
                  /\ \A u \in {updateGasCalibration(EngineRecord.cal,
                                                    FMax(c.r, c.rmin), TRUE)} :
                       /\ gas_calibration_data' = u.data
                       /\ gas_calibration_data_index' = u.index
                       /\ gas_ceiling' = u.ceiling
                       /\ gas_calibration_range' = u.range ]_vars

\* ------------------------------------------------------ the timer penalty

\* The minimum-time condition of stage 0 and of stage 1 with the timer at
\* the given value.
MinimumTimeReached(timer) ==
    Elapsed(millis, timer) >=
        ToUnsigned(IF gas_calibration_stage = 0
                   THEN gas_calibration_init_time
                   ELSE gas_calibration_burnin_time)

\* C5: a reading rejected by the upper limit in stage 0 or stage 1 never
\* makes the stage's minimum-time condition true when it was false without
\* the penalty, the elapsed time being (millis() - timer) modulo the
\* width of the timer.
C5_PenaltyOnlyDelays ==
    [][ \A t \in Temperatures, h \in Humidities, g \in GasReadings :
          ( /\ gas_calibration_stage < 2
            /\ g > gas_resistance_limit_max
            /\ calculateIAQ(t, h, g) )
          => (MinimumTimeReached(gas_calibration_timer')
                => MinimumTimeReached(gas_calibration_timer)) ]_vars

\* ------------------------------------------------------ rejected readings

\* C6: a cycle whose gas resistance is above gas_resistance_limit_max
\* changes nothing but gas_calibration_timer: the calibration array, its
\* index, the ceiling, the range, the stage, the uptime, the last low and
\* its count, the three range trackers, IAQ and IAQ_accuracy keep their
\* values; the timer moves by the penalty in stages 0 and 1 and keeps its
\* value in stage 2.
C6_RejectedReadingOnlyMovesTimer ==
    [][ \A t \in Temperatures, h \in Humidities, g \in GasReadings :
          (g > gas_resistance_limit_max /\ calculateIAQ(t, h, g))
          => /\ UNCHANGED << gas_calibration_data, gas_calibration_data_index,
                             gas_ceiling, gas_calibration_range,
                             gas_calibration_stage, sensor_uptime,
                             gas_stage_0_last_low, gas_stage_0_low_count,
                             temperature_donchian, humidity_donchian,
                             gas_resistance_donchian, IAQ, IAQ_accuracy >>
             /\ gas_calibration_timer' =
                    IF gas_calibration_stage < 2
                    THEN (gas_calibration_timer + PENALTY) % TimerModulus
                    ELSE gas_calibration_timer ]_vars

\* A reading was rejected in the burn-in stage, the trackers being in use
\* and the gas tracker's window full: the timer is one penalty past the
\* time the stage was entered.
C6_RejectedWhileSmoothing ==
    /\ donchian_enabled
    /\ gas_calibration_stage = 1
    /\ gas_resistance_donchian.dataFull
    /\ gas_calibration_timer = (entered + PENALTY) % TimerModulus

\* ------------------------------------------------- non-finite compensation

\* C7: a cycle whose compensated gas resistance or compensated floor is
\* not finite (NaN or infinite) is discarded: the calibration array, the
\* ceiling, the range, the stage, the timer, the uptime, IAQ, IAQ_accuracy
\* and the range trackers all keep their values.
C7_NonFiniteCycleDiscarded ==
    [][ \A t \in Temperatures, h \in Humidities, g \in GasReadings :
          \A c \in {Compensate(t, h, g)} :
            ( /\ g <= gas_resistance_limit_max
              /\ (~IsFinite(c.r) \/ ~IsFinite(c.rmin))
              /\ calculateIAQ(t, h, g) )
            => UNCHANGED << engine, trackers >> ]_vars

\* ---------------------------------------------------------------- the score

\* C8: after every completed cycle that leaves a ceiling c > 0, with r the
\* cycle's compensated gas resistance, IAQ is min(100, (r/c)^2 * 100): it
\* is exactly 100 when r >= c and below 100 when r < c.
C8_ScoreFromRatio ==
    [][ \A t \in Temperatures, h \in Humidities, g \in GasReadings :
          \A c \in {Compensate(t, h, g)} :
            ( /\ g <= gas_resistance_limit_max
              /\ ~isnan(c.r) /\ ~isnan(c.rmin)
              /\ calculateIAQ(t, h, g)
              /\ FGt(gas_ceiling', F(0)) )
            => /\ (IsFinite(c.r) /\ IsFinite(gas_ceiling'))
                     => IAQ' = FMin(F(100),
                                    FMul(FMul(FDiv(c.r, gas_ceiling'),
                                              FDiv(c.r, gas_ceiling')), F(100)))
               /\ FGe(c.r, gas_ceiling') => IAQ' = F(100)
               /\ FLt(c.r, gas_ceiling') => FLt(IAQ', F(100)) ]_vars

\* C9: in every reachable state IAQ lies in the closed range 0 to 100.
C9_ScoreWithinRange == FGe(IAQ, F(0)) /\ FLe(IAQ, F(100))

\* ------------------------------------------- nothing collected in stage 0

\* No slot of the calibration array is set, the ceiling is 0 and IAQ holds
\* its initial value.
NothingCollected ==
    /\ \A i \in 1..GAS_CALIBRATION_DATA_POINTS : gas_calibration_data[i] = F(0)
    /\ gas_ceiling = F(0)
    /\ IAQ = F(50)

\* C10: in every state of stage 0, and in the state the cycle that moves
\* from stage 0 to stage 1 leaves, all slots of the calibration array are
\* 0, the ceiling is 0 and IAQ is still 50.
C10_NothingCollectedInInit ==
    /\ [](gas_calibration_stage = 0 => NothingCollected)
    /\ [][ (gas_calibration_stage = 0 /\ gas_calibration_stage' = 1)
               => NothingCollected' ]_vars

\* The cycle that ends stage 0 has run, after a seeding reading and three
\* higher ones, and left nothing collected.
C10_LeftInitEmpty ==
    /\ gas_calibration_stage = 1
    /\ gas_stage_0_low_count = HIGHER_LOWS
    /\ NothingCollected

\* ------------------------------------------------------------ the accuracy

\* The table of the confidence grade: 0 in stage 0, 1 in stage 1, and in
\* stage 2 the tightest grade whose conditions hold.
GradeTable(stage, spread, uptime) ==
    IF stage = 0 THEN 0
    ELSE IF stage = 1 THEN 1
    ELSE IF FLt(spread, <<20, 1000>>) /\ uptime >= UPTIME_VERY_HIGH THEN 4
    ELSE IF FLt(spread, <<35, 1000>>) /\ uptime >= UPTIME_HIGH THEN 3
    ELSE IF FLt(spread, <<75, 1000>>) THEN 2
    ELSE 1

\* C11: in every reachable state, also after rejected and discarded cycles,
\* IAQ_accuracy is the table's grade for the current stage, calibration
\* range and uptime.
C11_GradeMatchesTable ==
    IAQ_accuracy = GradeTable(gas_calibration_stage, gas_calibration_range,
                              sensor_uptime)

\* The uptime has reached the threshold of accuracy 4 while the range is
\* between 2% and 3.5%: the accuracy is 3.
C11_HighUptimeMidRange ==
    /\ sensor_uptime >= UPTIME_VERY_HIGH
    /\ FGe(gas_calibration_range, <<20, 1000>>)
    /\ FLt(gas_calibration_range, <<35, 1000>>)
    /\ IAQ_accuracy = 3

\* In stage 2 the calibration range is below 2%.
RangeStaysTight ==
    gas_calibration_stage = 2 => FLt(gas_calibration_range, <<20, 1000>>)

\* C12: as long as the range is below 2% in stage 2, the accuracy after a
\* cycle is never below the accuracy before it: it is 0 in stage 0, 1 in
\* stage 1, and in stage 2 it is 2, then 3 from uptime 2 on, then 4 from
\* uptime 100 on.
C12_GradeNeverDrops ==
    /\ [][ (RangeStaysTight /\ RangeStaysTight')
               => IAQ_accuracy' >= IAQ_accuracy ]_vars
    /\ [](RangeStaysTight =>
            IAQ_accuracy =
                CASE gas_calibration_stage = 0 -> 0
                  [] gas_calibration_stage = 1 -> 1
                  [] gas_calibration_stage = 2 ->
                       IF sensor_uptime >= UPTIME_VERY_HIGH THEN 4
                       ELSE IF sensor_uptime >= UPTIME_HIGH THEN 3 ELSE 2)

\* The accuracy has climbed to 4 and the uptime has passed the threshold.
C12_ReachedVeryHigh ==
    /\ IAQ_accuracy = 4
    /\ sensor_uptime > UPTIME_VERY_HIGH

\* ------------------------------------------------- updateGasCalibration

\* The slots of an array that hold a value.
PopulatedSlots(data) ==
    {i \in 1..GAS_CALIBRATION_DATA_POINTS : data[i] # F(0)}

\* The sum of the slots of data in the set S, each counted once.
RECURSIVE SumOfSlots(_, _)
SumOfSlots(data, S) ==
    IF S = {} THEN F(0)
    ELSE LET i == CHOOSE j \in S : TRUE
         IN  FAdd(data[i], SumOfSlots(data, S \ {i}))

\* The arithmetic mean of the populated slots.
MeanOfPopulated(data) ==
    FDiv(SumOfSlots(data, PopulatedSlots(data)),
         F(Cardinality(PopulatedSlots(data))))

\* (max - min) / max over the populated slots.
SpreadOfPopulated(data) ==
    LET values == {data[i] : i \in PopulatedSlots(data)}
        hi == CHOOSE x \in values : \A y \in values : FGe(x, y)
        lo == CHOOSE x \in values : \A y \in values : FLe(x, y)
    IN  FDiv(FSub(hi, lo), hi)

\* C13: after every updateGasCalibration call with a positive value the
\* ceiling is the arithmetic mean of the slots that are not zero and the
\* range is (max - min) / max over them; a call with replaceSmallest false
\* stores the value at the cursor and advances the cursor, so that after
\* as many such calls as there are slots the ceiling is the mean of the
\* values passed.
C13_CeilingIsMeanOfPopulated ==
    [][ \A v \in CalibrationValues, replaceSmallest \in BOOLEAN :
          UpdateCall(v, replaceSmallest)
          => /\ gas_ceiling' = MeanOfPopulated(gas_calibration_data')
             /\ gas_calibration_range' = SpreadOfPopulated(gas_calibration_data')
             /\ ~replaceSmallest
                  => /\ gas_calibration_data' =
                            [gas_calibration_data
                                EXCEPT ![gas_calibration_data_index + 1] = v]
                     /\ gas_calibration_data_index' =
                            (gas_calibration_data_index + 1)
                                % GAS_CALIBRATION_DATA_POINTS ]_vars

\* The array has been filled, its first and last value differ, the cursor
\* is back at the first slot and the ceiling lies strictly between the
\* smallest and the largest value.
C13_FilledWithDifferentValues ==
    /\ PopulatedSlots(gas_calibration_data) = 1..GAS_CALIBRATION_DATA_POINTS
    /\ gas_calibration_data_index = 0
    /\ gas_calibration_data[1] # gas_calibration_data[GAS_CALIBRATION_DATA_POINTS]
    /\ \E i \in 1..GAS_CALIBRATION_DATA_POINTS :
           FLt(gas_calibration_data[i], gas_ceiling)
    /\ gas_calibration_range # F(0)

\* Slot i holds a smallest value of the array.
IsMinimumSlot(data, i) ==
    \A j \in 1..GAS_CALIBRATION_DATA_POINTS : FLe(data[i], data[j])

\* C14: on a fully populated array, updateGasCalibration with
\* replaceSmallest set and a value smaller than every slot changes
\* nothing: the slots, the cursor, the ceiling and the range keep their
\* values, however often the call is repeated.
C14_SmallerValueIsNoOp ==
    [][ \A v \in CalibrationValues :
          ( /\ PopulatedSlots(gas_calibration_data)
                   = 1..GAS_CALIBRATION_DATA_POINTS
            /\ \A i \in 1..GAS_CALIBRATION_DATA_POINTS :
                   FLt(v, gas_calibration_data[i])
            /\ UpdateCall(v, TRUE) )
          => UNCHANGED << gas_calibration_data, gas_calibration_data_index,
                          gas_ceiling, gas_calibration_range >> ]_vars

\* The array is fully populated with different values, all of them above
\* the smallest value a call may pass, and the cursor is inside the array.
C14_FullAboveSmallestValue ==
    /\ PopulatedSlots(gas_calibration_data) = 1..GAS_CALIBRATION_DATA_POINTS
    /\ \A i \in 1..GAS_CALIBRATION_DATA_POINTS :
           FLt(F(100), gas_calibration_data[i])
    /\ gas_calibration_range # F(0)
    /\ gas_calibration_data_index > 0

\* C15: a call with replaceSmallest set lowers no slot: it leaves every
\* slot as it is or raises exactly one slot, a smallest one, to a strictly
\* larger value.  A slot goes down only in a call with replaceSmallest
\* clear, and then it is the slot at the cursor.
C15_ReplaceSmallestNeverLowers ==
    [][ \A v \in CalibrationValues, replaceSmallest \in BOOLEAN :
          UpdateCall(v, replaceSmallest)
          => /\ replaceSmallest
                  => \/ gas_calibration_data' = gas_calibration_data
                     \/ \E i \in 1..GAS_CALIBRATION_DATA_POINTS :
                          /\ IsMinimumSlot(gas_calibration_data, i)
                          /\ FGt(gas_calibration_data'[i], gas_calibration_data[i])
                          /\ \A j \in 1..GAS_CALIBRATION_DATA_POINTS \ {i} :
                                 gas_calibration_data'[j] = gas_calibration_data[j]
             /\ \A i \in 1..GAS_CALIBRATION_DATA_POINTS :
                    FLt(gas_calibration_data'[i], gas_calibration_data[i])
                    => ~replaceSmallest /\ i = gas_calibration_data_index + 1 ]_vars

\* The array is full and has been written past its end (the cursor is
\* inside the array again), its smallest slot is below the largest value a
\* call may pass, so that a replace-smallest call raises it, and the slot
\* at the cursor is above the smallest value, so that a plain write lowers it.
C15_FullWithRaisableSlot ==
    /\ PopulatedSlots(gas_calibration_data) = 1..GAS_CALIBRATION_DATA_POINTS
    /\ gas_calibration_data_index = 1
    /\ \E i \in 1..GAS_CALIBRATION_DATA_POINTS :
           /\ IsMinimumSlot(gas_calibration_data, i)
           /\ FLt(gas_calibration_data[i], F(130))
    /\ FGt(gas_calibration_data[gas_calibration_data_index + 1], F(100))

\* The samples of the lookback window, oldest first: the most recent
\* min(k, TrackerSize) of the k samples tracked.
Window ==
    LET k == Len(tracked)
        n == IF k < TrackerSize THEN k ELSE TrackerSize
    IN  SubSeq(tracked, k - n + 1, k)

\* The newest p samples, and the least and the greatest value of a
\* non-empty sequence of samples.
Newest(p) == SubSeq(tracked, Len(tracked) - p + 1, Len(tracked))
Least(seq) ==
    CHOOSE x \in {seq[i] : i \in 1..Len(seq)} :
        \A i \in 1..Len(seq) : FLe(x, seq[i])
Greatest(seq) ==
    CHOOSE x \in {seq[i] : i \in 1..Len(seq)} :
        \A i \in 1..Len(seq) : FGe(x, seq[i])

\* The object under test exists and has tracked a sample.
HasTracked == temperature_donchian # nullptr /\ Len(tracked) >= 1

\* C16: without a range limit, after the k-th track() call min and max
\* are the least and the greatest of the most recent min(k, capacity)
\* samples and average is (min + max) / 2; the array holds exactly those
\* samples, the m-th sample in slot (m - 1) mod capacity, so the sample one
\* beyond the capacity has replaced the oldest one and no other.
C16_StatisticsOfTheWindow ==
    (HasTracked /\ temperature_donchian.rangeLimitMax = F(0))
    => /\ temperature_donchian.min = Least(Window)
       /\ temperature_donchian.max = Greatest(Window)
       /\ temperature_donchian.average
              = FDiv(FAdd(Least(Window), Greatest(Window)), F(2))
       /\ \A m \in 1..Len(tracked) :
              m > Len(tracked) - TrackerSize
              => temperature_donchian.data[((m - 1) % TrackerSize) + 1] = tracked[m]

\* One sample more than the capacity has been tracked without a range
\* limit, and the first sample was smaller than every later one.
C16_OldestWasTheLeast ==
    /\ HasTracked
    /\ temperature_donchian.rangeLimitMax = F(0)
    /\ Len(tracked) = TrackerSize + 1
    /\ \A m \in 2..Len(tracked) : FLt(tracked[1], tracked[m])

\* The numbers of newest samples whose range exceeds the limit R.
Exceeding(R) ==
    {p \in 1..Len(Window) : FGt(FSub(Greatest(Newest(p)), Least(Newest(p))), R)}

\* min and max as the walk from the newest sample backwards leaves them
\* under the limit R: those of the window when no part of it exceeds R,
\* otherwise those of the shortest exceeding part, one of them moved.
ClampedRange(R) ==
    IF Exceeding(R) = {} THEN <<Least(Window), Greatest(Window)>>
    ELSE LET p      == CHOOSE q \in Exceeding(R) : \A r \in Exceeding(R) : q <= r
             mn     == Least(Newest(p))
             mx     == Greatest(Newest(p))
             sample == tracked[Len(tracked)]
         IN  IF FLt(FSub(mx, sample), FSub(sample, mn))
             THEN <<FSub(mx, R), mx>>
             ELSE <<mn, FAdd(mn, R)>>

\* C17: with a range limit R > 0, after every track() call, for any order
\* of the samples and before as well as after the array is full, max - min
\* is at most R; when the walk exceeds R it stops, and min is max - R on an
\* upward breakout (max - sample < sample - min), max is min + R otherwise.
C17_RangeWithinLimit ==
    (HasTracked /\ temperature_donchian.rangeLimitMax # F(0))
    => /\ FLe(FSub(temperature_donchian.max, temperature_donchian.min),
              temperature_donchian.rangeLimitMax)
       /\ << temperature_donchian.min, temperature_donchian.max >>
              = ClampedRange(temperature_donchian.rangeLimitMax)

\* With a range limit, before the array is full, a sample has dropped
\* below its predecessor by more than the limit.
C17_DropBeyondLimit ==
    /\ HasTracked
    /\ temperature_donchian.rangeLimitMax # F(0)
    /\ ~temperature_donchian.dataFull
    /\ Len(tracked) = 2
    /\ FGt(FSub(tracked[1], tracked[2]), temperature_donchian.rangeLimitMax)

\* C18: with or without a range limit, after every track() call
\* min <= average <= max, and the sample just tracked (current) lies
\* within [min, max], also when the range limit moved min or max.
C18_AverageAndCurrentWithinRange ==
    HasTracked
    => /\ FLe(temperature_donchian.min, temperature_donchian.average)
       /\ FLe(temperature_donchian.average, temperature_donchian.max)
       /\ FLe(temperature_donchian.min, temperature_donchian.current)
       /\ FLe(temperature_donchian.current, temperature_donchian.max)
       /\ temperature_donchian.current = tracked[Len(tracked)]

\* The range limit has moved min to a value that is no sample, and the
\* sample just tracked lies strictly between min and max.
C18_MinMovedByLimit ==
    /\ HasTracked
    /\ temperature_donchian.rangeLimitMax # F(0)
    /\ \A m \in 1..Len(tracked) : tracked[m] # temperature_donchian.min
    /\ FLt(temperature_donchian.min, temperature_donchian.current)
    /\ FLt(temperature_donchian.current, temperature_donchian.max)

\* C19: setUpperGasResistanceLimits(min, max) fails exactly when min is
\* below 30 kOhm, max is above 2000 kOhm or min is above max, and a failed
\* call changes nothing, the stored limits included; a successful call
\* stores both limits.  So the stored limits always satisfy
\* 30 kOhm <= min <= max <= 2000 kOhm.
C19_LimitsSetOrRejected ==
    [][ /\ \A minLimit \in ConfigLimitValues, maxLimit \in ConfigLimitValues :
             /\ LimitsReturn(minLimit, maxLimit)
                    <=> ~(minLimit < 30 \/ maxLimit > 2000 \/ minLimit > maxLimit)
             /\ setUpperGasResistanceLimits(minLimit, maxLimit)
                => IF minLimit < 30 \/ maxLimit > 2000 \/ minLimit > maxLimit
                   THEN UNCHANGED vars
                   ELSE /\ gas_resistance_limit_min' = minLimit
                        /\ gas_resistance_limit_max' = maxLimit
        /\ 30 <= gas_resistance_limit_min'
        /\ gas_resistance_limit_min' <= gas_resistance_limit_max'
        /\ gas_resistance_limit_max' <= 2000 ]_vars

\* Both limits have been set to values other than the defaults, after a
\* reading was accepted under the defaults and a later one rejected under
\* a lower upper limit.
C19_LimitsChanged ==
    /\ gas_resistance_limit_min # DEFAULT_LIMIT_MIN
    /\ gas_resistance_limit_max # DEFAULT_LIMIT_MAX
    /\ gas_resistance_limit_min < gas_resistance_limit_max
    /\ gas_stage_0_last_low > 0
    /\ gas_calibration_timer > 0

\* C20: after any calls of setGasCalibrationTimings, accepted or not, the
\* stored timings satisfy init >= 1 s, burn-in >= init + 1 s and
\* decay >= burn-in + the decay gap; a call that fails changes none of the
\* three stored timings.
C20_TimingFloors ==
    [][ /\ gas_calibration_init_time' >= MIN_INIT_TIME
        /\ gas_calibration_burnin_time'
               >= gas_calibration_init_time' + MIN_BURNIN_GAP
        /\ gas_calibration_decay_time'
               >= gas_calibration_burnin_time' + MIN_DECAY_GAP
        /\ \A initTime \in ConfigTimingValues, burninTime \in ConfigTimingValues,
              decayTime \in ConfigTimingValues :
               ( /\ setGasCalibrationTimings(initTime, burninTime, decayTime)
                 /\ ~TimingsReturn(initTime, burninTime, decayTime) )
               => UNCHANGED << gas_calibration_init_time,
                               gas_calibration_burnin_time,
                               gas_calibration_decay_time >> ]_vars

\* The larger of two ints.
Larger(a, b) == IF a > b THEN a ELSE b

\* The timings the claim expects a successful call to store: every value
\* raised to its floor.
RaisedInit(initTime) == Larger(initTime, MIN_INIT_TIME)
RaisedBurnin(initTime, burninTime) ==
    Larger(burninTime, RaisedInit(initTime) + MIN_BURNIN_GAP)
RaisedDecay(initTime, burninTime, decayTime) ==
    Larger(decayTime, RaisedBurnin(initTime, burninTime) + MIN_DECAY_GAP)

\* Some outcome of the call stores other timings than the raised ones.
StoresOtherThanRaised(initTime, burninTime, decayTime) ==
    ENABLED ( /\ setGasCalibrationTimings(initTime, burninTime, decayTime)
              /\ << gas_calibration_init_time', gas_calibration_burnin_time',
                    gas_calibration_decay_time' >>
                 # << RaisedInit(initTime), RaisedBurnin(initTime, burninTime),
                      RaisedDecay(initTime, burninTime, decayTime) >> )

\* Some outcome of the call changes the state.
ChangesState(initTime, burninTime, decayTime) ==
    ENABLED ( /\ setGasCalibrationTimings(initTime, burninTime, decayTime)
              /\ vars' # vars )

C22_TrackersCreatedWithLimit ==
    [][ \A a \in SmoothingLimitArguments :
          ( /\ a[1] /\ a[2] >= 2
            /\ setDonchianSmoothingLimits(a[1], a[2], a[3], a[4], a[5]) )
          => /\ FGt(a[3], F(0)) => temperature_donchian'.rangeLimitMax = a[3]
             /\ FGt(a[4], F(0)) => humidity_donchian'.rangeLimitMax = a[4]
             /\ FGt(a[5], F(0)) => gas_resistance_donchian'.rangeLimitMax = a[5] ]_vars

\* C23: in every state the calibration range (spread) lies in [0, 1], it
\* is exactly 1 while the calibration array holds no value, and the
\* accuracy getGasCalibrationAccuracy returns, (1 - range) * 100, lies in
\* [0, 100].
C23_SpreadWithinUnitInterval ==
    /\ FGe(gas_calibration_range, F(0))
    /\ FLe(gas_calibration_range, F(1))
    /\ PopulatedSlots(gas_calibration_data) = {} => gas_calibration_range = F(1)
    /\ FGe(getGasCalibrationAccuracy, F(0))
    /\ FLe(getGasCalibrationAccuracy, F(100))

\* The cycle is processed: the gas reading is within the upper limit and
\* both compensated values are numbers.
Processed(temperature, humidity, gas_resistance) ==
    /\ gas_resistance <= gas_resistance_limit_max
    /\ ~isnan(Compensate(temperature, humidity, gas_resistance).r)
    /\ ~isnan(Compensate(temperature, humidity, gas_resistance).rmin)

\* The compensated reading exceeds the humidity-adjusted floor.
AboveFloor(temperature, humidity, gas_resistance) ==
    FGt(Compensate(temperature, humidity, gas_resistance).r,
        Compensate(temperature, humidity, gas_resistance).rmin)

\* The ceiling and the range are those of the array after the step.
StatisticsFollow ==
    /\ gas_ceiling' = MeanOfPopulated(gas_calibration_data')
    /\ gas_calibration_range' = SpreadOfPopulated(gas_calibration_data')

\* The step puts r in the place of a smallest slot; the cursor stays.
FoldedReplacingSmallest(r) ==
    /\ \E i \in 1..GAS_CALIBRATION_DATA_POINTS :
           /\ IsMinimumSlot(gas_calibration_data, i)
           /\ gas_calibration_data' = [gas_calibration_data EXCEPT ![i] = r]
    /\ gas_calibration_data_index' = gas_calibration_data_index
    /\ StatisticsFollow

\* The step writes r at the cursor and advances the cursor.
FoldedByRotation(r) ==
    /\ gas_calibration_data' =
           [gas_calibration_data EXCEPT ![gas_calibration_data_index + 1] = r]
    /\ gas_calibration_data_index' =
           (gas_calibration_data_index + 1) % GAS_CALIBRATION_DATA_POINTS
    /\ StatisticsFollow

\* What the claim says a processed cycle of the normal stage does.
NormalStageCases(temperature, humidity, gas_resistance) ==
    LET r == Compensate(temperature, humidity, gas_resistance).r
    IN  IF AboveFloor(temperature, humidity, gas_resistance) /\ FGt(r, gas_ceiling)
        THEN /\ FoldedReplacingSmallest(r)
             /\ UNCHANGED << gas_calibration_timer, sensor_uptime >>
        ELSE IF /\ AboveFloor(temperature, humidity, gas_resistance)
                /\ Elapsed(millis, gas_calibration_timer) >= gas_calibration_decay_time
        THEN /\ FoldedByRotation(r)
             /\ gas_calibration_timer' = millis
             /\ sensor_uptime' = sensor_uptime + 1
        ELSE UNCHANGED << gas_calibration_data, gas_calibration_data_index,
                          gas_ceiling, gas_calibration_range,
                          gas_calibration_timer, sensor_uptime >>

\* C24: in the normal stage a processed reading above the floor and above
\* the ceiling is folded in replacing the smallest slot, timer and uptime
\* unchanged; otherwise one above the floor, the decay time having
\* passed, is written at the cursor, the timer is set to now and uptime
\* goes up by 1; in every other case the array, the cursor, the ceiling,
\* the range, the timer and uptime are unchanged.
C24_NormalStageCases ==
    [][ \A t \in Temperatures, h \in LongRunHumidities, g \in NormalGasReadings :
          ( /\ gas_calibration_stage = 2
            /\ Processed(t, h, g)
            /\ calculateIAQ(t, h, g) )
          => NormalStageCases(t, h, g) ]_vars

\* The normal stage after a rotation and with a slot above the others:
\* the array has been rotated, and a later reading can exceed the ceiling.
C24_RotatedWithUnequalSlots ==
    /\ gas_calibration_stage = 2
    /\ sensor_uptime >= 1
    /\ gas_calibration_range # F(0)
    /\ Elapsed(millis, gas_calibration_timer) >= gas_calibration_decay_time

\* The step folds the cycle's compensated reading into the array, one way
\* or the other.
ArrayUpdated(temperature, humidity, gas_resistance) ==
    \/ FoldedReplacingSmallest(Compensate(temperature, humidity, gas_resistance).r)
    \/ FoldedByRotation(Compensate(temperature, humidity, gas_resistance).r)

\* C25 as stated: in the normal stage, once the decay time has passed
\* since the timer was last reset, the first processed cycle, whatever its
\* accepted reading, updates the calibration array.
C25_UpdatedOnceDecayTimePassed ==
    [][ \A t \in Temperatures, h \in LongRunHumidities, g \in NormalGasReadings :
          ( /\ gas_calibration_stage = 2
            /\ Processed(t, h, g)
            /\ Elapsed(millis, gas_calibration_timer) >= gas_calibration_decay_time
            /\ calculateIAQ(t, h, g) )
          => ArrayUpdated(t, h, g) ]_vars

\* C25 (amended): in the normal stage, once the decay time has passed
\* since the timer was last reset, the first processed cycle whose
\* compensated reading exceeds the humidity-adjusted floor updates the
\* calibration array.
C25_UpdatedOnceDecayTimePassedAboveFloor ==
    [][ \A t \in Temperatures, h \in LongRunHumidities, g \in NormalGasReadings :
          ( /\ gas_calibration_stage = 2
            /\ Processed(t, h, g)
            /\ AboveFloor(t, h, g)
            /\ Elapsed(millis, gas_calibration_timer) >= gas_calibration_decay_time
            /\ calculateIAQ(t, h, g) )
          => ArrayUpdated(t, h, g) ]_vars

\* The array has just been rotated for the second time: the timer was
\* reset in this cycle.
C25_JustRotatedAgain ==
    /\ gas_calibration_stage = 2
    /\ sensor_uptime >= 2
    /\ gas_calibration_timer = millis

\* The step is a decay rotation: in the normal stage, the decay time
\* having passed, a value is written at the cursor, the cursor advances
\* and the timer is set to now.
DecayRotation ==
    /\ gas_calibration_stage = 2
    /\ gas_calibration_stage' = 2
    /\ Elapsed(millis, gas_calibration_timer) >= gas_calibration_decay_time
    /\ \A i \in 1..GAS_CALIBRATION_DATA_POINTS :
           i # gas_calibration_data_index + 1
           => gas_calibration_data'[i] = gas_calibration_data[i]
    /\ gas_calibration_data_index' =
           (gas_calibration_data_index + 1) % GAS_CALIBRATION_DATA_POINTS
    /\ gas_calibration_timer' = millis

\* C26: sensor_uptime is 0 in every state of the initialization and the
\* burn-in stage; it never goes down, and it changes only by +1 and only
\* in a cycle of the normal stage that performs a decay rotation.
C26_UptimeCountsDecayRotations ==
    [][ /\ gas_calibration_stage < 2 => sensor_uptime = 0
        /\ gas_calibration_stage' < 2 => sensor_uptime' = 0
        /\ sensor_uptime' # sensor_uptime
           => sensor_uptime' = sensor_uptime + 1 /\ DecayRotation ]_vars

\* Two decay rotations have been counted and time has passed since the
\* second.
C26_TwoRotationsCounted ==
    /\ gas_calibration_stage = 2
    /\ sensor_uptime = 2
    /\ gas_calibration_timer # millis

\* C27: an increment of sensor_uptime comes no sooner than the decay
\* time after the previous increment, the first one no sooner than the
\* decay time after the normal stage was entered; a reading above the
\* upper limit in the normal stage leaves the timer alone, so it does not
\* change this.
C27_IncrementsADecayTimeApart ==
    [][ /\ sensor_uptime' # sensor_uptime
           => Elapsed(millis, counted) >= gas_calibration_decay_time
        /\ \A t \in Temperatures, h \in LongRunHumidities, g \in NormalGasReadings :
               ( /\ gas_calibration_stage = 2
                 /\ g > gas_resistance_limit_max
                 /\ calculateIAQ(t, h, g) )
               => gas_calibration_timer' = gas_calibration_timer ]_vars

\* The second increment has just happened, exactly the decay time after
\* the first.
C27_SecondIncrementOnTime ==
    /\ gas_calibration_stage = 2
    /\ sensor_uptime = 2
    /\ counted = millis
    /\ Elapsed(millis, entered) >= 2 * gas_calibration_decay_time

\* C28: in every state, if the last slot of the calibration array is not
\* zero then no slot is zero; so throughout the normal stage the array is
\* fully populated, every stored value is above zero, the cursor is within
\* the array and the ceiling is above zero.
C28_LastSlotTellsFull ==
    /\ gas_calibration_data[GAS_CALIBRATION_DATA_POINTS] # F(0)
       => \A i \in 1..GAS_CALIBRATION_DATA_POINTS : gas_calibration_data[i] # F(0)
    /\ gas_calibration_stage = 2
       => /\ \A i \in 1..GAS_CALIBRATION_DATA_POINTS :
                 FGt(gas_calibration_data[i], F(0))
          /\ gas_calibration_data_index \in 0..(GAS_CALIBRATION_DATA_POINTS - 1)
          /\ FGt(gas_ceiling, F(0))

=============================================================================
